---- MODULE Spec2Model ----
(***************************************************************************)
(* grpc_secure_channel_create and the secure client channel factory of     *)
(* src/core/ext/transport/chttp2/client/secure/secure_channel_create.c.    *)
(*                                                                         *)
(* Every statement of grpc_secure_channel_create and of the factory's      *)
(* ref, unref, create_subchannel and create_channel is one action, named   *)
(* after the source line it starts at.  The objects the code allocates     *)
(* (security connectors, factories, channels, resolvers, transport         *)
(* connectors, subchannels) live in heaps indexed by an object id, each    *)
(* with its reference count and the number of times it was freed, so that  *)
(* a leak, a double release and a use after free are all visible.          *)
(* add_handshakers (lines 72-76) is the callback the transport connector   *)
(* runs during a connection attempt; it reads the security connector it    *)
(* was given and writes none of the objects modelled here.                 *)
(***************************************************************************)
EXTENDS Integers, Sequences, FiniteSets, TLC

\* Bounds of the model.
NumCalls == 2      \* calls of grpc_secure_channel_create
MaxOwners == 3     \* parties that can hold a reference to one factory
MaxSubchannels == 2  \* calls of create_subchannel

Min(S) == CHOOSE x \in S : \A y \in S : x <= y

Calls == 1..NumCalls
Owners == 1..MaxOwners

NULL == 0
\* A security connector that exists before any call: the one a caller may
\* have put into its channel args.
ForeignSc == NumCalls + 1
ScIds == 1..(NumCalls + 1)
FacIds == 1..NumCalls
ChanIds == 1..NumCalls
ResIds == 1..NumCalls
ConnIds == 1..MaxSubchannels
SubIds == 1..MaxSubchannels

\* The owner that stands for the channel stack of the channel built from the
\* factory (client_channel keeps the factory it was initialised with).
ChannelStack == Min(Owners)

(***************************************************************************)
(* Channel args                                                            *)
(***************************************************************************)
GRPC_SECURITY_CONNECTOR_ARG == "grpc.security_connector"
SSL_TARGET_NAME_OVERRIDE_ARG == "grpc.ssl_target_name_override"

Arg(k, v) == [key |-> k, value |-> v]

\* A grpc_channel_args object: NULL, or a list of entries; destroyed counts
\* the grpc_channel_args_destroy calls made on it.
NullArgs == [isnull |-> TRUE, entries |-> << >>, destroyed |-> 0]
MkArgs(es) == [isnull |-> FALSE, entries |-> es, destroyed |-> 0]

\* The args a caller may pass.
CallerArgs ==
  { NullArgs,
    MkArgs(<<Arg("k1", 1)>>),
    MkArgs(<<Arg(GRPC_SECURITY_CONNECTOR_ARG, ForeignSc)>>),
    MkArgs(<<Arg("k1", 1), Arg(GRPC_SECURITY_CONNECTOR_ARG, ForeignSc)>>) }

\* The args a credentials implementation may hand back for caller args a:
\* none, a fragment of its own, a fragment that redefines a caller's key, or
\* a copy of the caller's args with its own entry added.
DerivedArgs(a) ==
  { NullArgs,
    MkArgs(<<Arg(SSL_TARGET_NAME_OVERRIDE_ARG, 1)>>),
    MkArgs(<<Arg("k1", 2)>>),
    MkArgs(a.entries \o <<Arg(SSL_TARGET_NAME_OVERRIDE_ARG, 1)>>) }

\* The credentials a caller may pass: an object the caller owns (it holds
\* one reference), of a kind that decides which args its connectors hand
\* back.
Creds ==
  { [kind |-> k, refs |-> 1, destroyed |-> 0] :
      k \in {"none", "fragment", "redefine", "copy"} }

\* The args that credentials cr hand back for caller args a.
DerivedFor(cr, a) ==
  CASE cr.kind = "none" -> NullArgs
    [] cr.kind = "fragment" -> MkArgs(<<Arg(SSL_TARGET_NAME_OVERRIDE_ARG, 1)>>)
    [] cr.kind = "redefine" -> MkArgs(<<Arg("k1", 2)>>)
    [] cr.kind = "copy" ->
         MkArgs(a.entries \o <<Arg(SSL_TARGET_NAME_OVERRIDE_ARG, 1)>>)

\* grpc_find_security_connector_in_args: the connector of the first
\* security connector entry, NULL when args is NULL or has none.
grpc_find_security_connector_in_args(a) ==
  LET idx == { i \in 1..Len(a.entries) :
                 a.entries[i].key = GRPC_SECURITY_CONNECTOR_ARG }
  IN  IF a.isnull \/ idx = {} THEN NULL ELSE a.entries[Min(idx)].value

\* grpc_security_connector_to_arg
grpc_security_connector_to_arg(scid) == Arg(GRPC_SECURITY_CONNECTOR_ARG, scid)

\* grpc_channel_args_copy_and_add: a fresh args object, the entries of src
\* (none when src is NULL) followed by the added entry.
grpc_channel_args_copy_and_add(src, toAdd) ==
  MkArgs((IF src.isnull THEN << >> ELSE src.entries) \o <<toAdd>>)

\* grpc_channel_args_destroy
grpc_channel_args_destroy(a) == [a EXCEPT !.destroyed = @ + 1]

(***************************************************************************)
(* Heaps                                                                   *)
(***************************************************************************)
NoSc == [alloc |-> FALSE, refs |-> 0, freed |-> 0]
NoFac == [alloc |-> FALSE, refs |-> 0, vtable |-> "none",
          security_connector |-> NULL, freed |-> 0, released |-> 0]
NoChan == [alloc |-> FALSE, kind |-> "none", refs |-> 0, status |-> "none",
           message |-> "none", args |-> << >>, resolver |-> NULL,
           factory |-> NULL, destroyed |-> 0]
NoRes == [alloc |-> FALSE, refs |-> 0, freed |-> 0]
\* A transport connector (grpc_connector) with the handshaker argument it was
\* made with, and a subchannel with the connector it was made from.
NoConn == [alloc |-> FALSE, refs |-> 0, freed |-> 0, security_connector |-> NULL]
NoSub == [alloc |-> FALSE, connector |-> NULL, returned |-> FALSE]
\* The locals of a create_subchannel call that is not running.
NoCs == [connector |-> NULL, s |-> NULL]

\* The lowest id of the heap not yet handed out.
NewId(heap) == Min({ i \in DOMAIN heap : ~heap[i].alloc })

\* The id an allocation of call c gets: any id not handed out will do, and
\* the allocator takes the one with the call's number while it is free.
NewIdFor(heap, c) ==
  IF c \in DOMAIN heap /\ ~heap[c].alloc THEN c ELSE NewId(heap)

VARIABLES
  pc,                       \* pc[c]: the line call c is at
  args,                     \* args[c]: the caller's args of call c
  creds,                    \* creds[c]: the caller's credentials of call c
  security_connector,       \* locals of grpc_secure_channel_create
  new_args_from_connector,
  new_args,
  f,
  channel,
  cc_channel,               \* locals of client_channel_factory_create_channel
  resolver,
  exec_ctx,                 \* exec_ctx[c]: times the call's exec_ctx was finished
  result,                   \* result[c]: what the call returned
  sc, fac, chan, res,       \* the heaps
  own,                      \* own[fid][o]: where owner o of factory fid is
  conn, sub,                \* the heaps of transport connectors, subchannels
  cs,                       \* cs[fid][o]: locals of o's create_subchannel
  err                       \* memory errors that happened

locals == <<security_connector, new_args_from_connector, new_args, f,
            channel, cc_channel, resolver>>
heaps == <<sc, fac, chan, res>>
subs == <<conn, sub, cs>>
vars == <<pc, args, creds, locals, exec_ctx, result, heaps, own, subs, err>>

NotReturned == [returned |-> FALSE, value |-> NULL]
Returned(v) == [returned |-> TRUE, value |-> v]

(***************************************************************************)
(* Reference counting                                                      *)
(***************************************************************************)
\* gpr_ref on the connector's refcount (GRPC_SECURITY_CONNECTOR_REF).
ScRef(s, id) == IF id = NULL THEN s ELSE [s EXCEPT ![id].refs = @ + 1]

\* GRPC_SECURITY_CONNECTOR_UNREF: nothing on NULL; else the count goes down
\* by one and the connector is destroyed when it reaches zero.
ScUnref(s, id) ==
  IF id = NULL THEN s
  ELSE [s EXCEPT ![id].refs = @ - 1,
                 ![id].freed = IF s[id].refs - 1 = 0 THEN @ + 1 ELSE @]

\* The memory errors of a ref or unref of connector id in heap s.
ScErr(s, id) ==
  IF id # NULL /\ (s[id].freed > 0 \/ s[id].refs <= 0)
  THEN {"connector used after free"} ELSE {}

\* The memory errors of touching factory id in heap h.
FacErr(h, id) ==
  IF h[id].freed > 0 THEN {"factory used after free"} ELSE {}

\* The errors of handing a finished exec_ctx to a callee.
CtxErr(c) == IF exec_ctx[c] > 0 THEN {"exec_ctx used after finish"} ELSE {}

(***************************************************************************)
(* Initial state: the first call is about to run its first statement, with *)
(* any of the caller's args; the other calls are not issued.               *)
(***************************************************************************)
FirstCall == Min(Calls)

Init ==
  /\ pc = [c \in Calls |-> IF c = FirstCall THEN "L128" ELSE "idle"]
  /\ \E a \in CallerArgs :
       args = [c \in Calls |-> IF c = FirstCall THEN a ELSE NullArgs]
  /\ \E cr \in Creds : creds = [c \in Calls |-> cr]
  /\ security_connector = [c \in Calls |-> NULL]
  /\ new_args_from_connector = [c \in Calls |-> NullArgs]
  /\ new_args = [c \in Calls |-> NullArgs]
  /\ f = [c \in Calls |-> NULL]
  /\ channel = [c \in Calls |-> NULL]
  /\ cc_channel = [c \in Calls |-> NULL]
  /\ resolver = [c \in Calls |-> NULL]
  /\ exec_ctx = [c \in Calls |-> 0]
  /\ result = [c \in Calls |-> NotReturned]
  /\ sc = [i \in ScIds |->
             IF i = ForeignSc THEN [alloc |-> TRUE, refs |-> 1, freed |-> 0]
             ELSE NoSc]
  /\ fac = [i \in FacIds |-> NoFac]
  /\ chan = [i \in ChanIds |-> NoChan]
  /\ res = [i \in ResIds |-> NoRes]
  /\ own = [i \in FacIds |-> [o \in Owners |-> "none"]]
  /\ conn = [i \in ConnIds |-> NoConn]
  /\ sub = [i \in SubIds |-> NoSub]
  /\ cs = [i \in FacIds |-> [o \in Owners |-> NoCs]]
  /\ err = {}

(***************************************************************************)
(* grpc_secure_channel_create                                              *)
(***************************************************************************)
\* grpc_lame_client_channel_create followed by the return of its result.
ReturnLame(c, msg) ==
  LET id == NewIdFor(chan, c) IN
  /\ chan' = [chan EXCEPT ![id] =
                [NoChan EXCEPT !.alloc = TRUE, !.kind = "lame", !.refs = 1,
                               !.status = "GRPC_STATUS_INTERNAL",
                               !.message = msg]]
  /\ result' = [result EXCEPT ![c] = Returned(id)]
  /\ pc' = [pc EXCEPT ![c] = "done"]
  /\ UNCHANGED <<creds, subs, args, locals, exec_ctx, sc, fac, res, own, err>>

\* grpc_exec_ctx_finish, then on to line next.
FinishCtx(c, next) ==
  /\ exec_ctx' = [exec_ctx EXCEPT ![c] = @ + 1]
  /\ pc' = [pc EXCEPT ![c] = next]
  /\ UNCHANGED <<creds, subs, args, locals, result, heaps, own, err>>

\* Line 128 without its test: the call goes on whatever the args hold.
L128_NoCheck(c) ==
  /\ pc[c] = "L128"
  /\ pc' = [pc EXCEPT ![c] = "L138"]
  /\ UNCHANGED <<creds, subs, args, locals, exec_ctx, result, heaps, own, err>>

\* Line 128: is there a security connector in the caller's args?
L128(c) ==
  /\ pc[c] = "L128"
  /\ pc' = [pc EXCEPT ![c] =
              IF grpc_find_security_connector_in_args(args[c]) # NULL
              THEN "L130" ELSE "L138"]
  /\ UNCHANGED <<creds, subs, args, locals, exec_ctx, result, heaps, own, err>>

L130(c) == pc[c] = "L130" /\ FinishCtx(c, "L131")

L131(c) ==
  /\ pc[c] = "L131"
  /\ ReturnLame(c, "Security connector exists in channel args.")

\* Lines 138-140 with the status ignored: a failure goes on to line 145.
L138_IgnoreStatus(c) ==
  /\ pc[c] = "L138"
  /\ \/ /\ pc' = [pc EXCEPT ![c] = "L145"]
        /\ UNCHANGED <<creds, subs, security_connector, new_args_from_connector, sc>>
     \/ \E d \in DerivedArgs(args[c]) :
          LET id == NewIdFor(sc, c) IN
          /\ d = DerivedFor(creds[c], args[c])
          /\ sc' = [sc EXCEPT ![id] = [alloc |-> TRUE, refs |-> 1, freed |-> 0]]
          /\ security_connector' = [security_connector EXCEPT ![c] = id]
          /\ new_args_from_connector' =
               [new_args_from_connector EXCEPT ![c] = d]
          /\ pc' = [pc EXCEPT ![c] = "L145"]
  /\ UNCHANGED <<creds, subs, args, new_args, f, channel, cc_channel, resolver, exec_ctx,
                 result, fac, chan, res, own, err>>

\* Lines 138-140: grpc_channel_credentials_create_security_connector either
\* fails, or makes a connector with one reference and may hand back args.
L138(c) ==
  /\ pc[c] = "L138"
  /\ \/ /\ pc' = [pc EXCEPT ![c] = "L141"]
        /\ UNCHANGED <<creds, subs, security_connector, new_args_from_connector, sc>>
     \/ \E d \in DerivedArgs(args[c]) :
          LET id == NewIdFor(sc, c) IN
          /\ d = DerivedFor(creds[c], args[c])
          /\ sc' = [sc EXCEPT ![id] = [alloc |-> TRUE, refs |-> 1, freed |-> 0]]
          /\ security_connector' = [security_connector EXCEPT ![c] = id]
          /\ new_args_from_connector' =
               [new_args_from_connector EXCEPT ![c] = d]
          /\ pc' = [pc EXCEPT ![c] = "L145"]
  /\ UNCHANGED <<creds, subs, args, new_args, f, channel, cc_channel, resolver, exec_ctx,
                 result, fac, chan, res, own, err>>

L141(c) == pc[c] = "L141" /\ FinishCtx(c, "L142")

L142(c) ==
  /\ pc[c] = "L142"
  /\ ReturnLame(c, "Failed to create security connector.")

\* Lines 145-149 with the connector entry put first.
L145_Prepend(c) ==
  /\ pc[c] = "L145"
  /\ new_args' = [new_args EXCEPT ![c] =
       MkArgs(<<grpc_security_connector_to_arg(security_connector[c])>> \o
              (IF ~new_args_from_connector[c].isnull
               THEN new_args_from_connector[c].entries
               ELSE args[c].entries))]
  /\ pc' = [pc EXCEPT ![c] = "L150"]
  /\ UNCHANGED <<creds, subs, args, security_connector, new_args_from_connector, f,
                 channel, cc_channel, resolver, exec_ctx, result, heaps, own,
                 err>>

\* Lines 145-149: the args of the new channel.
L145(c) ==
  /\ pc[c] = "L145"
  /\ new_args' = [new_args EXCEPT ![c] =
       grpc_channel_args_copy_and_add(
         IF ~new_args_from_connector[c].isnull
         THEN new_args_from_connector[c] ELSE args[c],
         grpc_security_connector_to_arg(security_connector[c]))]
  /\ pc' = [pc EXCEPT ![c] = "L150"]
  /\ UNCHANGED <<creds, subs, args, security_connector, new_args_from_connector, f,
                 channel, cc_channel, resolver, exec_ctx, result, heaps, own,
                 err>>

\* Lines 150-152.
L150(c) ==
  /\ pc[c] = "L150"
  /\ new_args_from_connector' =
       IF ~new_args_from_connector[c].isnull
       THEN [new_args_from_connector EXCEPT
               ![c] = grpc_channel_args_destroy(@)]
       ELSE new_args_from_connector
  /\ pc' = [pc EXCEPT ![c] = "L154"]
  /\ UNCHANGED <<creds, subs, args, security_connector, new_args, f, channel, cc_channel,
                 resolver, exec_ctx, result, heaps, own, err>>

\* Lines 154-157 with one factory for all calls, set up again by each.
L154_Shared(c) ==
  /\ pc[c] = "L154"
  /\ fac' = [fac EXCEPT ![Min(FacIds)] =
               [NoFac EXCEPT !.alloc = TRUE, !.refs = 1,
                             !.vtable = "client_channel_factory_vtable"]]
  /\ f' = [f EXCEPT ![c] = Min(FacIds)]
  /\ pc' = [pc EXCEPT ![c] = "L158"]
  /\ UNCHANGED <<creds, subs, args, security_connector, new_args_from_connector,
                 new_args, channel, cc_channel, resolver, exec_ctx, result,
                 sc, chan, res, own, err>>

\* Lines 154-157: the factory, zeroed, with its vtable and one reference.
L154(c) ==
  /\ pc[c] = "L154"
  /\ LET id == NewIdFor(fac, c) IN
     /\ fac' = [fac EXCEPT ![id] =
                  [NoFac EXCEPT !.alloc = TRUE, !.refs = 1,
                                !.vtable = "client_channel_factory_vtable"]]
     /\ f' = [f EXCEPT ![c] = id]
  /\ pc' = [pc EXCEPT ![c] = "L158"]
  /\ UNCHANGED <<creds, subs, args, security_connector, new_args_from_connector, new_args,
                 channel, cc_channel, resolver, exec_ctx, result, sc, chan,
                 res, own, err>>

\* Lines 158-159 left out: the factory holds no reference of its own.
L158_NoRef(c) ==
  /\ pc[c] = "L158"
  /\ pc' = [pc EXCEPT ![c] = "L160"]
  /\ UNCHANGED <<creds, subs, args, locals, exec_ctx, result, heaps, own, err>>

\* Lines 158-159: the reference the factory will hold.
L158(c) ==
  /\ pc[c] = "L158"
  /\ sc' = ScRef(sc, security_connector[c])
  /\ err' = err \cup ScErr(sc, security_connector[c])
  /\ pc' = [pc EXCEPT ![c] = "L160"]
  /\ UNCHANGED <<creds, subs, args, locals, exec_ctx, result, fac, chan, res, own>>

\* Line 160.
L160(c) ==
  /\ pc[c] = "L160"
  /\ fac' = [fac EXCEPT ![f[c]].security_connector = security_connector[c]]
  /\ pc' = [pc EXCEPT ![c] = "L95"]
  /\ UNCHANGED <<creds, subs, args, locals, exec_ctx, result, sc, chan, res, own, err>>

(***************************************************************************)
(* client_channel_factory_create_channel, called at line 162               *)
(***************************************************************************)
\* Lines 94-95: grpc_channel_create makes the channel, holding one internal
\* reference and its own copy of the args.
L95(c) ==
  /\ pc[c] = "L95"
  /\ LET id == NewIdFor(chan, c) IN
     /\ chan' = [chan EXCEPT ![id] =
                   [NoChan EXCEPT !.alloc = TRUE, !.kind = "client",
                                  !.refs = 1, !.args = new_args[c].entries]]
     /\ cc_channel' = [cc_channel EXCEPT ![c] = id]
  /\ err' = err \cup CtxErr(c)
  /\ pc' = [pc EXCEPT ![c] = "L96"]
  /\ UNCHANGED <<creds, subs, args, security_connector, new_args_from_connector, new_args,
                 f, channel, resolver, exec_ctx, result, sc, fac, res, own>>

\* Lines 96-97: grpc_resolver_create gives NULL, or a resolver with one
\* reference.
L96(c) ==
  /\ pc[c] = "L96"
  /\ \/ /\ resolver' = [resolver EXCEPT ![c] = NULL]
        /\ pc' = [pc EXCEPT ![c] = "L98"]
        /\ UNCHANGED res
     \/ LET id == NewIdFor(res, c) IN
        /\ res' = [res EXCEPT ![id] = [alloc |-> TRUE, refs |-> 1, freed |-> 0]]
        /\ resolver' = [resolver EXCEPT ![c] = id]
        /\ pc' = [pc EXCEPT ![c] = "L102"]
  /\ UNCHANGED <<creds, subs, args, security_connector, new_args_from_connector, new_args,
                 f, channel, cc_channel, exec_ctx, result, sc, fac, chan, own,
                 err>>

\* Lines 98-100 without the unref: the channel is only forgotten.
L98_NoUnref(c) ==
  /\ pc[c] = "L98"
  /\ channel' = [channel EXCEPT ![c] = NULL]
  /\ pc' = [pc EXCEPT ![c] = "L165"]
  /\ UNCHANGED <<creds, subs, args, security_connector, new_args_from_connector, new_args,
                 f, cc_channel, resolver, exec_ctx, result, heaps, own, err>>

\* Lines 98-100 returning the channel it has just dropped.
L98_ReturnsChannel(c) ==
  /\ pc[c] = "L98"
  /\ chan' = [chan EXCEPT
       ![cc_channel[c]].refs = @ - 1,
       ![cc_channel[c]].destroyed =
          IF chan[cc_channel[c]].refs - 1 = 0 THEN @ + 1 ELSE @]
  /\ err' = err \cup CtxErr(c)
  /\ channel' = [channel EXCEPT ![c] = cc_channel[c]]
  /\ pc' = [pc EXCEPT ![c] = "L165"]
  /\ UNCHANGED <<creds, subs, args, security_connector, new_args_from_connector, new_args,
                 f, cc_channel, resolver, exec_ctx, result, sc, fac, res, own>>

\* Lines 98-100: drop the channel and return NULL to line 162.
L98(c) ==
  /\ pc[c] = "L98"
  /\ chan' = [chan EXCEPT
       ![cc_channel[c]].refs = @ - 1,
       ![cc_channel[c]].destroyed =
          IF chan[cc_channel[c]].refs - 1 = 0 THEN @ + 1 ELSE @]
  /\ err' = err \cup CtxErr(c) \cup
       (IF chan[cc_channel[c]].refs <= 0
        THEN {"channel used after free"} ELSE {})
  /\ channel' = [channel EXCEPT ![c] = NULL]
  /\ pc' = [pc EXCEPT ![c] = "L165"]
  /\ UNCHANGED <<creds, subs, args, security_connector, new_args_from_connector, new_args,
                 f, cc_channel, resolver, exec_ctx, result, sc, fac, res, own>>

\* client_channel_factory_ref, line 59.
client_channel_factory_ref(h, id) == [h EXCEPT ![id].refs = @ + 1]

\* grpc_client_channel_finish_initialization stores the resolver and the
\* factory in the channel stack of channel ch and takes a reference to each
\* (the factory's through its vtable): the stack uses both for the rest of
\* the channel's life.
grpc_client_channel_finish_initialization(ch, r, fid) ==
  /\ chan' = [chan EXCEPT ![ch].resolver = r, ![ch].factory = fid]
  /\ res' = [res EXCEPT ![r].refs = @ + 1]
  /\ fac' = client_channel_factory_ref(fac, fid)
  /\ own' = [own EXCEPT ![fid][ChannelStack] = "held"]

\* Lines 102-103.
L102(c) ==
  /\ pc[c] = "L102"
  /\ grpc_client_channel_finish_initialization(cc_channel[c], resolver[c],
                                               f[c])
  /\ err' = err \cup CtxErr(c) \cup FacErr(fac, f[c])
  /\ pc' = [pc EXCEPT ![c] = "L104"]
  /\ UNCHANGED <<creds, subs, args, locals, exec_ctx, result, sc>>

\* Lines 104-105 without the unref: the constructor's resolver reference of
\* line 96 is never dropped.
L104_NoUnref(c) ==
  /\ pc[c] = "L104"
  /\ channel' = [channel EXCEPT ![c] = cc_channel[c]]
  /\ pc' = [pc EXCEPT ![c] = "L165"]
  /\ UNCHANGED <<creds, subs, args, security_connector, new_args_from_connector, new_args,
                 f, cc_channel, resolver, exec_ctx, result, heaps, own, err>>

\* Lines 104-105: drop the resolver reference of line 96, return the channel
\* to line 162.
L104(c) ==
  /\ pc[c] = "L104"
  /\ res' = [res EXCEPT
       ![resolver[c]].refs = @ - 1,
       ![resolver[c]].freed = IF res[resolver[c]].refs - 1 = 0 THEN @ + 1 ELSE @]
  /\ err' = err \cup CtxErr(c) \cup
       (IF res[resolver[c]].refs <= 0
        THEN {"resolver used after free"} ELSE {})
  /\ channel' = [channel EXCEPT ![c] = cc_channel[c]]
  /\ pc' = [pc EXCEPT ![c] = "L165"]
  /\ UNCHANGED <<creds, subs, args, security_connector, new_args_from_connector, new_args,
                 f, cc_channel, resolver, exec_ctx, result, sc, fac, chan, own>>

(***************************************************************************)
(* client_channel_factory_unref, lines 62-70                               *)
(***************************************************************************)
\* gpr_unref: one atomic decrement.
gpr_unref(h, id) == [h EXCEPT ![id].refs = @ - 1]

\* Line 65: the decrement, and whether it was the one that reached zero.
\* (e: the errors of the call itself).
Unref65(id, e) ==
  /\ fac' = gpr_unref(fac, id)
  /\ err' = err \cup e \cup FacErr(fac, id)
              \cup (IF fac[id].refs <= 0 THEN {"factory count below zero"}
                    ELSE {})

\* Line 65 taking the last but one reference for the last.
Unref65Zero_OffByOne(id) == fac[id].refs - 1 <= 1

Unref65Zero(id) == fac[id].refs - 1 = 0

\* Lines 66-67 clearing the factory's connector pointer after the release.
Unref66_ClearsPointer(id) ==
  /\ sc' = ScUnref(sc, fac[id].security_connector)
  /\ fac' = [fac EXCEPT ![id].released = @ + 1,
                        ![id].security_connector = NULL]
  /\ err' = err \cup FacErr(fac, id) \cup ScErr(sc, fac[id].security_connector)

\* Lines 66-67: the factory drops its connector reference.
Unref66(id) ==
  /\ sc' = ScUnref(sc, fac[id].security_connector)
  /\ fac' = [fac EXCEPT ![id].released = @ + 1]
  /\ err' = err \cup FacErr(fac, id) \cup ScErr(sc, fac[id].security_connector)

\* Line 68: gpr_free(f).
Unref68(id) ==
  /\ fac' = [fac EXCEPT ![id].freed = @ + 1]
  /\ err' = err \cup FacErr(fac, id)

(***************************************************************************)
(* grpc_secure_channel_create, clean up                                    *)
(***************************************************************************)
\* Lines 165-166 left out: the constructor keeps its connector reference.
L165_NoUnref(c) ==
  /\ pc[c] = "L165"
  /\ pc' = [pc EXCEPT ![c] = "L167"]
  /\ UNCHANGED <<creds, subs, args, locals, exec_ctx, result, heaps, own, err>>

\* Lines 165-166: the reference of line 138, through the factory's pointer.
L165(c) ==
  /\ pc[c] = "L165"
  /\ sc' = ScUnref(sc, fac[f[c]].security_connector)
  /\ err' = err \cup FacErr(fac, f[c])
                \cup ScErr(sc, fac[f[c]].security_connector)
  /\ pc' = [pc EXCEPT ![c] = "L167"]
  /\ UNCHANGED <<creds, subs, args, locals, exec_ctx, result, fac, chan, res, own>>

\* Line 167 destroying the caller's args in place of the merged args.
L167_DestroysArgs(c) ==
  /\ pc[c] = "L167"
  /\ args' = [args EXCEPT ![c] = grpc_channel_args_destroy(@)]
  /\ pc' = [pc EXCEPT ![c] = "L168"]
  /\ UNCHANGED <<creds, subs, locals, exec_ctx, result, heaps, own, err>>

\* Line 167.
L167(c) ==
  /\ pc[c] = "L167"
  /\ new_args' = [new_args EXCEPT ![c] = grpc_channel_args_destroy(@)]
  /\ pc' = [pc EXCEPT ![c] = "L168"]
  /\ UNCHANGED <<creds, subs, args, security_connector, new_args_from_connector, f,
                 channel, cc_channel, resolver, exec_ctx, result, heaps, own,
                 err>>

\* Line 168 left out: the constructor keeps its factory reference.
L168_NoUnref(c) ==
  /\ pc[c] = "L168"
  /\ pc' = [pc EXCEPT ![c] = "L169"]
  /\ UNCHANGED <<creds, subs, args, locals, exec_ctx, result, heaps, own, err>>

\* Line 168: grpc_client_channel_factory_unref, that is line 65 on f.
L168(c) ==
  /\ pc[c] = "L168"
  /\ Unref65(f[c], CtxErr(c))
  /\ pc' = [pc EXCEPT ![c] = IF Unref65Zero(f[c]) THEN "L66" ELSE "L169"]
  /\ UNCHANGED <<creds, subs, args, locals, exec_ctx, result, sc, chan, res, own>>

L66(c) ==
  /\ pc[c] = "L66"
  /\ Unref66(f[c])
  /\ pc' = [pc EXCEPT ![c] = "L68"]
  /\ UNCHANGED <<creds, subs, args, locals, exec_ctx, result, chan, res, own>>

L68(c) ==
  /\ pc[c] = "L68"
  /\ Unref68(f[c])
  /\ pc' = [pc EXCEPT ![c] = "L169"]
  /\ UNCHANGED <<creds, subs, args, locals, exec_ctx, result, sc, chan, res, own>>

\* Line 169 left out: the call returns without finishing its exec_ctx.
L169_NoFinish(c) ==
  /\ pc[c] = "L169"
  /\ pc' = [pc EXCEPT ![c] = "L170"]
  /\ UNCHANGED <<creds, subs, args, locals, exec_ctx, result, heaps, own, err>>

L169(c) == pc[c] = "L169" /\ FinishCtx(c, "L170")

\* Line 170.
L170(c) ==
  /\ pc[c] = "L170"
  /\ result' = [result EXCEPT ![c] = Returned(channel[c])]
  /\ pc' = [pc EXCEPT ![c] = "done"]
  /\ UNCHANGED <<creds, subs, args, locals, exec_ctx, heaps, own, err>>

(***************************************************************************)
(* The holders of a factory, once its channel was returned to the caller.  *)
(* A holder may take a reference for another party (the vtable's ref) and  *)
(* every holder drops its reference once (the vtable's unref), in any      *)
(* order and interleaved statement by statement.                           *)
(***************************************************************************)
InUse(id) == \E c \in Calls : f[c] = id /\ pc[c] = "done"

OwnerRef(id, h, o) ==
  /\ InUse(id)
  /\ own[id][h] = "held"
  /\ own[id][o] = "none"
  /\ fac' = client_channel_factory_ref(fac, id)
  /\ err' = err \cup FacErr(fac, id)
  /\ own' = [own EXCEPT ![id][o] = "held"]
  /\ UNCHANGED <<creds, subs, pc, args, locals, exec_ctx, result, sc, chan, res>>

OwnerL65(id, o) ==
  /\ InUse(id)
  /\ own[id][o] = "held"
  /\ Unref65(id, {})
  /\ own' = [own EXCEPT ![id][o] = IF Unref65Zero(id) THEN "L66" ELSE "none"]
  /\ UNCHANGED <<creds, subs, pc, args, locals, exec_ctx, result, sc, chan, res>>

OwnerL66(id, o) ==
  /\ own[id][o] = "L66"
  /\ Unref66(id)
  /\ own' = [own EXCEPT ![id][o] = "L68"]
  /\ UNCHANGED <<creds, subs, pc, args, locals, exec_ctx, result, chan, res>>

OwnerL68(id, o) ==
  /\ own[id][o] = "L68"
  /\ Unref68(id)
  /\ own' = [own EXCEPT ![id][o] = "none"]
  /\ UNCHANGED <<creds, subs, pc, args, locals, exec_ctx, result, sc, chan, res>>

(***************************************************************************)
(* client_channel_factory_create_subchannel, lines 78-87, called by a      *)
(* holder of the factory.                                                  *)
(***************************************************************************)
\* Lines 81-83: grpc_chttp2_connector_create makes a transport connector
\* with one reference, given the factory's security connector.
OwnerL82(id, o) ==
  /\ InUse(id)
  /\ own[id][o] = "held"
  /\ \E i \in ConnIds : ~conn[i].alloc
  /\ LET k == NewId(conn) IN
     /\ conn' = [conn EXCEPT ![k] =
                   [alloc |-> TRUE, refs |-> 1, freed |-> 0,
                    security_connector |-> fac[id].security_connector]]
     /\ cs' = [cs EXCEPT ![id][o].connector = k]
  /\ err' = err \cup FacErr(fac, id)
                \cup ScErr(sc, fac[id].security_connector)
  /\ own' = [own EXCEPT ![id][o] = "L84"]
  /\ UNCHANGED <<creds, pc, args, locals, exec_ctx, result, heaps, sub>>

\* Line 84: grpc_subchannel_create makes the subchannel, which keeps the
\* connector with a reference of its own.
OwnerL84(id, o) ==
  /\ own[id][o] = "L84"
  /\ LET k == NewId(sub) IN
     /\ sub' = [sub EXCEPT ![k] = [alloc |-> TRUE,
                                   connector |-> cs[id][o].connector,
                                   returned |-> FALSE]]
     /\ cs' = [cs EXCEPT ![id][o].s = k]
  /\ conn' = [conn EXCEPT ![cs[id][o].connector].refs = @ + 1]
  /\ own' = [own EXCEPT ![id][o] = "L85"]
  /\ UNCHANGED <<creds, pc, args, locals, exec_ctx, result, heaps, err>>

\* Lines 85-86 without the unref: the reference of line 82 is kept.
OwnerL85_NoUnref(id, o) ==
  /\ own[id][o] = "L85"
  /\ sub' = [sub EXCEPT ![cs[id][o].s].returned = TRUE]
  /\ cs' = [cs EXCEPT ![id][o] = NoCs]
  /\ own' = [own EXCEPT ![id][o] = "held"]
  /\ UNCHANGED <<creds, pc, args, locals, exec_ctx, result, heaps, conn, err>>

\* Lines 85-86: drop the reference of line 82 and return the subchannel.
OwnerL85(id, o) ==
  /\ own[id][o] = "L85"
  /\ conn' = [conn EXCEPT
       ![cs[id][o].connector].refs = @ - 1,
       ![cs[id][o].connector].freed =
          IF conn[cs[id][o].connector].refs - 1 = 0 THEN @ + 1 ELSE @]
  /\ err' = err \cup
       (IF conn[cs[id][o].connector].refs <= 0
        THEN {"transport connector used after free"} ELSE {})
  /\ sub' = [sub EXCEPT ![cs[id][o].s].returned = TRUE]
  /\ cs' = [cs EXCEPT ![id][o] = NoCs]
  /\ own' = [own EXCEPT ![id][o] = "held"]
  /\ UNCHANGED <<creds, pc, args, locals, exec_ctx, result, heaps>>

Next ==
  \/ \E c \in Calls :
       \/ L128(c) \/ L130(c) \/ L131(c) \/ L138(c) \/ L141(c) \/ L142(c)
       \/ L145(c) \/ L150(c) \/ L154(c) \/ L158(c) \/ L160(c)
       \/ L95(c) \/ L96(c) \/ L98(c) \/ L102(c) \/ L104(c)
       \/ L165(c) \/ L167(c) \/ L168(c) \/ L66(c) \/ L68(c)
       \/ L169(c) \/ L170(c)
  \/ \E id \in FacIds, o \in Owners :
       \/ \E h \in Owners : OwnerRef(id, h, o)
       \/ OwnerL65(id, o) \/ OwnerL66(id, o) \/ OwnerL68(id, o)
       \/ OwnerL82(id, o) \/ OwnerL84(id, o) \/ OwnerL85(id, o)

Spec == Init /\ [][Next]_vars

(***************************************************************************)
(* Concurrent calls: every call is issued, all with the same args, and     *)
(* their statements interleave in any order.                               *)
(***************************************************************************)
InitCalls ==
  /\ pc = [c \in Calls |-> "L128"]
  /\ \E a \in CallerArgs : args = [c \in Calls |-> a]
  /\ \E cr \in Creds : creds = [c \in Calls |-> cr]
  /\ security_connector = [c \in Calls |-> NULL]
  /\ new_args_from_connector = [c \in Calls |-> NullArgs]
  /\ new_args = [c \in Calls |-> NullArgs]
  /\ f = [c \in Calls |-> NULL]
  /\ channel = [c \in Calls |-> NULL]
  /\ cc_channel = [c \in Calls |-> NULL]
  /\ resolver = [c \in Calls |-> NULL]
  /\ exec_ctx = [c \in Calls |-> 0]
  /\ result = [c \in Calls |-> NotReturned]
  /\ sc = [i \in ScIds |->
             IF i = ForeignSc THEN [alloc |-> TRUE, refs |-> 1, freed |-> 0]
             ELSE NoSc]
  /\ fac = [i \in FacIds |-> NoFac]
  /\ chan = [i \in ChanIds |-> NoChan]
  /\ res = [i \in ResIds |-> NoRes]
  /\ own = [i \in FacIds |-> [o \in Owners |-> "none"]]
  /\ conn = [i \in ConnIds |-> NoConn]
  /\ sub = [i \in SubIds |-> NoSub]
  /\ cs = [i \in FacIds |-> [o \in Owners |-> NoCs]]
  /\ err = {}

NextCalls ==
  \E c \in Calls :
    \/ L128(c) \/ L130(c) \/ L131(c) \/ L138(c) \/ L141(c) \/ L142(c)
    \/ L145(c) \/ L150(c) \/ L154(c) \/ L158(c) \/ L160(c)
    \/ L95(c) \/ L96(c) \/ L98(c) \/ L102(c) \/ L104(c)
    \/ L165(c) \/ L167(c) \/ L168(c) \/ L66(c) \/ L68(c)
    \/ L169(c) \/ L170(c)

SpecCalls == InitCalls /\ [][NextCalls]_vars

(***************************************************************************)
(* The paths of a call, read off its state                                 *)
(***************************************************************************)
Issued(c) == pc[c] # "idle"

\* The caller's args hold a security connector entry.
ArgsConflict(c) ==
  Issued(c) /\ grpc_find_security_connector_in_args(args[c]) # NULL

\* The call took the failure exit of line 140.
ConnectorFailed(c) ==
  \/ pc[c] \in {"L141", "L142"}
  \/ pc[c] = "done" /\ ~ArgsConflict(c) /\ security_connector[c] = NULL

\* The call is at its last statement, the return of line 170, or past it.
AtReturn(c) == pc[c] = "L170"
Finished(c) == pc[c] \in {"L170", "done"}

\* The call built its factory and grpc_resolver_create then gave NULL.
ResolverFailed(c) == Finished(c) /\ f[c] # NULL /\ resolver[c] = NULL

\* The call built its factory and the resolver.
Succeeded(c) == Finished(c) /\ f[c] # NULL /\ resolver[c] # NULL

\* The call returned a lame channel with status INTERNAL and message msg.
ReturnedLame(c, msg) ==
  /\ result[c].returned
  /\ result[c].value # NULL
  /\ chan[result[c].value].alloc
  /\ chan[result[c].value].kind = "lame"
  /\ chan[result[c].value].status = "GRPC_STATUS_INTERNAL"
  /\ chan[result[c].value].message = msg

\* Every object of the heaps made by a call is known to the call that made it.
ScOf(c) == IF security_connector[c] = NULL THEN {} ELSE {security_connector[c]}
FacOf(c) == IF f[c] = NULL THEN {} ELSE {f[c]}
ResOf(c) == IF resolver[c] = NULL THEN {} ELSE {resolver[c]}
ClientChanOf(c) == IF cc_channel[c] = NULL THEN {} ELSE {cc_channel[c]}

\* Nothing was built on behalf of call c: no connector, merged args,
\* factory, channel stack or resolver.
NothingBuilt(c) ==
  /\ security_connector[c] = NULL
  /\ new_args_from_connector[c].isnull
  /\ new_args[c].isnull
  /\ f[c] = NULL
  /\ cc_channel[c] = NULL
  /\ resolver[c] = NULL
  /\ \A i \in ChanIds :
       chan[i].kind = "client" => \E d \in Calls : d # c /\ cc_channel[d] = i

(***************************************************************************)
(* C1.  A call whose args already hold a security connector entry returns  *)
(* a lame channel with status INTERNAL and the message "Security connector *)
(* exists in channel args.", and at no point of it is a connector, a       *)
(* merged args object, a factory, a channel stack or a resolver made: the  *)
(* call only ever is at lines 128, 130, 131 and at its end.                *)
(***************************************************************************)
C1_ConflictReturnsLame ==
  \A c \in Calls :
    ArgsConflict(c) =>
      /\ pc[c] \in {"L128", "L130", "L131", "done"}
      /\ NothingBuilt(c)
      /\ \A i \in ScIds : sc[i].alloc /\ i # ForeignSc =>
           \E d \in Calls : d # c /\ security_connector[d] = i
      /\ pc[c] = "done" =>
           ReturnedLame(c, "Security connector exists in channel args.")

C1_Witness ==
  \E c \in Calls :
    /\ ArgsConflict(c)
    /\ pc[c] = "done"
    /\ ReturnedLame(c, "Security connector exists in channel args.")

(***************************************************************************)
(* C2.  When the creation of the security connector fails, the call makes  *)
(* no resolver, no factory and no channel stack, at that point or later,   *)
(* and it returns a lame channel with status INTERNAL and the message      *)
(* "Failed to create security connector.".                                 *)
(***************************************************************************)
C2_ConnectorFailureReturnsLame ==
  \A c \in Calls :
    ConnectorFailed(c) =>
      /\ NothingBuilt(c)
      /\ \A i \in ResIds : res[i].alloc => \E d \in Calls : d # c /\ resolver[d] = i
      /\ \A i \in FacIds : fac[i].alloc => \E d \in Calls : d # c /\ f[d] = i
      /\ pc[c] = "done" =>
           ReturnedLame(c, "Failed to create security connector.")

C2_Witness ==
  \E c \in Calls :
    /\ ConnectorFailed(c)
    /\ pc[c] = "done"
    /\ ReturnedLame(c, "Failed to create security connector.")

(***************************************************************************)
(* C3.  When the resolver cannot be made after the connector and the       *)
(* factory were, then at the return of the call the factory's count is 0   *)
(* and it was freed once, the connector's count is 0 and it was destroyed  *)
(* once, the merged args were destroyed, and the call returns NULL.        *)
(***************************************************************************)
C3_ResolverFailureReleasesAll ==
  \A c \in Calls :
    ResolverFailed(c) =>
      /\ fac[f[c]].refs = 0
      /\ fac[f[c]].freed = 1
      /\ fac[f[c]].released = 1
      /\ security_connector[c] # NULL
      /\ sc[security_connector[c]].refs = 0
      /\ sc[security_connector[c]].freed = 1
      /\ ~new_args[c].isnull
      /\ new_args[c].destroyed = 1
      /\ channel[c] = NULL
      /\ pc[c] = "done" => result[c] = Returned(NULL)

C3_Witness ==
  \E c \in Calls :
    /\ ResolverFailed(c)
    /\ pc[c] = "done"
    /\ result[c] = Returned(NULL)
    /\ fac[f[c]].freed = 1

(***************************************************************************)
(* C4.  After a successful construction, at the return of the call, the    *)
(* connector's count is the number of live factories that point to it,     *)
(* and that is one: the factory of this call, which the returned channel   *)
(* keeps.  The constructor's own reference is gone.                        *)
(***************************************************************************)
LiveFactoriesOf(s) ==
  { i \in FacIds : fac[i].alloc /\ fac[i].freed = 0
                   /\ fac[i].security_connector = s }

C4_ConnectorCountAtReturn ==
  \A c \in Calls :
    AtReturn(c) /\ Succeeded(c) =>
      /\ security_connector[c] # NULL
      /\ sc[security_connector[c]].refs =
           Cardinality(LiveFactoriesOf(security_connector[c]))
      /\ LiveFactoriesOf(security_connector[c]) = {f[c]}
      /\ sc[security_connector[c]].freed = 0
      /\ channel[c] # NULL
      /\ chan[channel[c]].factory = f[c]
      /\ chan[channel[c]].destroyed = 0

C4_Witness ==
  \E c \in Calls :
    /\ AtReturn(c) /\ Succeeded(c)
    /\ sc[security_connector[c]].refs = 1
    /\ fac[f[c]].security_connector = security_connector[c]

(***************************************************************************)
(* C5.  No count is ever taken below zero and no freed object is ever      *)
(* touched; and at each of the four exits of the call nothing the call     *)
(* made is still held by the call: every count is the number of pointers   *)
(* that remain (the factory's to the connector, the channel stack's to the *)
(* factory and to the resolver, the caller's to the returned channel),     *)
(* what has count zero was freed once, the args objects the call made were *)
(* destroyed once and the caller's args never.                             *)
(***************************************************************************)
LiveChannelsWith(fid) ==
  { i \in ChanIds : chan[i].alloc /\ chan[i].destroyed = 0
                    /\ chan[i].factory = fid }
LiveChannelsOn(r) ==
  { i \in ChanIds : chan[i].alloc /\ chan[i].destroyed = 0
                    /\ chan[i].resolver = r }

Balanced(c) ==
  /\ args[c].destroyed = 0
  /\ new_args_from_connector[c].isnull \/ new_args_from_connector[c].destroyed = 1
  /\ new_args[c].isnull \/ new_args[c].destroyed = 1
  /\ security_connector[c] # NULL =>
       LET s == sc[security_connector[c]] IN
       /\ s.refs = Cardinality(LiveFactoriesOf(security_connector[c]))
       /\ s.freed = (IF s.refs = 0 THEN 1 ELSE 0)
  /\ f[c] # NULL =>
       LET x == fac[f[c]] IN
       /\ x.refs = Cardinality(LiveChannelsWith(f[c]))
       /\ x.freed = (IF x.refs = 0 THEN 1 ELSE 0)
       /\ x.released = x.freed
  /\ cc_channel[c] # NULL =>
       LET x == chan[cc_channel[c]] IN
       /\ x.refs = (IF channel[c] = cc_channel[c] THEN 1 ELSE 0)
       /\ x.destroyed = (IF x.refs = 0 THEN 1 ELSE 0)
  /\ resolver[c] # NULL =>
       LET x == res[resolver[c]] IN
       /\ x.refs = Cardinality(LiveChannelsOn(resolver[c]))
       /\ x.refs = 1
       /\ x.freed = 0
  /\ f[c] = NULL /\ pc[c] = "done" =>
       /\ chan[result[c].value].refs = 1
       /\ chan[result[c].value].destroyed = 0

C5_ReferencesBalanced ==
  /\ err = {}
  /\ \A i \in ScIds : sc[i].refs >= 0 /\ sc[i].freed <= 1
  /\ \A i \in FacIds : fac[i].refs >= 0 /\ fac[i].freed <= 1
  /\ \A i \in ChanIds : chan[i].refs >= 0 /\ chan[i].destroyed <= 1
  /\ \A i \in ResIds : res[i].refs >= 0 /\ res[i].freed <= 1
  /\ \A c \in Calls :
       AtReturn(c) \/ (pc[c] = "done" /\ f[c] = NULL) => Balanced(c)

C5_Witness ==
  \E c \in Calls :
    /\ AtReturn(c) /\ Succeeded(c)
    /\ ~new_args_from_connector[c].isnull
    /\ new_args_from_connector[c].destroyed = 1
    /\ new_args[c].destroyed = 1
    /\ res[resolver[c]].refs = 1
    /\ fac[f[c]].refs = 1

(***************************************************************************)
(* C6.  A call returns NULL exactly when the resolver could not be made;   *)
(* with a connector already in the args or a connector that could not be   *)
(* made it returns a lame channel, and on success the live channel.        *)
(***************************************************************************)
C6_NullOnlyOnResolverFailure ==
  \A c \in Calls :
    pc[c] = "done" =>
      /\ result[c].returned
      /\ (result[c].value = NULL) <=> ResolverFailed(c)
      /\ ArgsConflict(c) \/ ConnectorFailed(c) =>
           /\ result[c].value # NULL
           /\ chan[result[c].value].kind = "lame"
           /\ chan[result[c].value].destroyed = 0
      /\ Succeeded(c) =>
           /\ result[c].value # NULL
           /\ chan[result[c].value].kind = "client"
           /\ chan[result[c].value].destroyed = 0
           /\ chan[result[c].value].refs >= 1

C6_Witness ==
  \E c \in Calls :
    /\ pc[c] = "done" /\ Succeeded(c)
    /\ result[c].value # NULL
    /\ chan[result[c].value].kind = "client"

(***************************************************************************)
(* C7.  As claimed: when the connector hands back args of its own, every   *)
(* entry of the caller's args is still in the merged args.                 *)
(***************************************************************************)
Has(es, e) == \E j \in 1..Len(es) : es[j] = e

SecurityEntries(es) ==
  { i \in 1..Len(es) : es[i].key = GRPC_SECURITY_CONNECTOR_ARG }

C8_OneConnectorEntryOneResolver ==
  \A c \in Calls :
    Succeeded(c) =>
      /\ channel[c] # NULL
      /\ LET es == chan[channel[c]].args IN
         /\ Cardinality(SecurityEntries(es)) = 1
         /\ \A i \in SecurityEntries(es) : es[i].value = security_connector[c]
      /\ chan[channel[c]].resolver = resolver[c]
      /\ res[resolver[c]].alloc
      /\ Cardinality({ i \in ResIds : res[i].alloc }) =
           Cardinality({ d \in Calls : resolver[d] # NULL })
      /\ \A d \in Calls : d # c => resolver[d] # resolver[c]

C8_Witness ==
  \E c \in Calls :
    /\ AtReturn(c) /\ Succeeded(c)
    /\ args[c].isnull
    /\ Cardinality(SecurityEntries(chan[channel[c]].args)) = 1
    /\ chan[channel[c]].resolver = resolver[c]

Holders(id) == { o \in Owners : own[id][o] \in {"held", "L84", "L85"} }
Releasing(id) == { o \in Owners : own[id][o] \in {"L66", "L68"} }
ConstructorHolds(id) ==
  { c \in Calls : f[c] = id /\
      pc[c] \in {"L158", "L160", "L95", "L96", "L98", "L102", "L104", "L165",
                 "L167", "L168"} }
ConstructorReleasing(id) ==
  { c \in Calls : f[c] = id /\ pc[c] \in {"L66", "L68"} }

C10_ReleasedAndFreedOnce ==
  /\ "factory used after free" \notin err
  /\ "factory count below zero" \notin err
  /\ "connector used after free" \notin err
  /\ \A id \in FacIds :
       fac[id].alloc =>
         /\ fac[id].refs =
              Cardinality(Holders(id)) + Cardinality(ConstructorHolds(id))
         /\ Cardinality(Releasing(id)) + Cardinality(ConstructorReleasing(id))
              <= 1
         /\ Releasing(id) # {} \/ ConstructorReleasing(id) # {} =>
              fac[id].refs = 0 /\ fac[id].freed = 0
         /\ fac[id].released <= 1
         /\ fac[id].freed <= 1
         /\ fac[id].released = 1 => fac[id].refs = 0
         /\ fac[id].freed = 1 =>
              /\ fac[id].released = 1
              /\ Releasing(id) = {} /\ ConstructorReleasing(id) = {}
         /\ fac[id].released =
              (IF \E o \in Owners : own[id][o] = "L68" THEN 1
               ELSE IF \E c \in Calls : f[c] = id /\ pc[c] = "L68" THEN 1
               ELSE fac[id].freed)

C10_Witness ==
  \E id \in FacIds :
    \E o \in Owners :
      /\ o # ChannelStack
      /\ own[id][o] = "L68"
      /\ fac[id].released = 1
      /\ fac[id].refs = 0

(***************************************************************************)
(* C11.  Calls with the same args, in any interleaving, each make their    *)
(* own connector, factory, merged args and channel: no two calls have an   *)
(* object in common, the objects of a call point only to objects of that   *)
(* call, and no step of a call changes the connector or the factory of     *)
(* another call (their counts included).                                   *)
(***************************************************************************)
C11_NoSharing ==
  \A c \in Calls : \A d \in Calls :
    c # d =>
      /\ security_connector[c] # NULL => security_connector[d] # security_connector[c]
      /\ f[c] # NULL => f[d] # f[c]
      /\ cc_channel[c] # NULL => cc_channel[d] # cc_channel[c]
      /\ resolver[c] # NULL => resolver[d] # resolver[c]
      /\ result[c].value # NULL => result[d].value # result[c].value
      /\ f[c] # NULL =>
           fac[f[c]].security_connector \in {NULL, security_connector[c]}
      /\ \A i \in SecurityEntries(new_args[c].entries) :
           new_args[c].entries[i].value = security_connector[c]
      /\ cc_channel[c] # NULL =>
           /\ chan[cc_channel[c]].factory \in {NULL, f[c]}
           /\ chan[cc_channel[c]].resolver \in {NULL, resolver[c]}
           /\ chan[cc_channel[c]].args = new_args[c].entries

C11_NoInterference ==
  \A c \in Calls : \A d \in Calls :
    c # d /\ pc'[d] # pc[d] =>
      /\ security_connector'[c] = security_connector[c]
      /\ f'[c] = f[c]
      /\ new_args'[c] = new_args[c]
      /\ security_connector[c] # NULL =>
           sc'[security_connector[c]] = sc[security_connector[c]]
      /\ f[c] # NULL => fac'[f[c]] = fac[f[c]]
      /\ cc_channel[c] # NULL => chan'[cc_channel[c]] = chan[cc_channel[c]]

C11_IndependentCalls == [](C11_NoSharing) /\ [][C11_NoInterference]_vars

C11_Witness ==
  \E c \in Calls : \E d \in Calls :
    /\ c # d
    /\ args[c] = args[d] /\ ~ArgsConflict(c)
    /\ pc[c] = "L104" /\ pc[d] = "L165"
    /\ resolver[c] # NULL /\ resolver[d] # NULL
    /\ f[c] # f[d]
    /\ sc[security_connector[c]].refs = 2
    /\ sc[security_connector[d]].refs = 2

(***************************************************************************)
(* C12.  In client_channel_factory_create_channel the channel is made      *)
(* before the resolver is attempted: at line 96 the channel exists with    *)
(* its one reference and no resolver was made yet.  When                   *)
(* grpc_resolver_create gives NULL, the channel's reference is dropped     *)
(* once (count 0, destroyed once, no use after free),                      *)
(* grpc_client_channel_finish_initialization is not called (the channel    *)
(* holds neither resolver nor factory, the channel stack holds no factory  *)
(* reference, lines 102 and 104 are only reached with a resolver), and     *)
(* NULL is what create_channel and the constructor return.                 *)
(***************************************************************************)
\* Call c is past line 97 on the branch of a NULL resolver.
AfterResolverFailure(c) ==
  /\ pc[c] \in {"L98", "L165", "L167", "L168", "L66", "L68", "L169", "L170",
                "done"}
  /\ f[c] # NULL
  /\ resolver[c] = NULL

C12_ResolverFailureDropsChannel ==
  \A c \in Calls :
    /\ pc[c] = "L95" => cc_channel[c] = NULL /\ resolver[c] = NULL
    /\ resolver[c] # NULL => cc_channel[c] # NULL
    /\ pc[c] = "L96" =>
         /\ cc_channel[c] # NULL
         /\ chan[cc_channel[c]].alloc
         /\ chan[cc_channel[c]].kind = "client"
         /\ chan[cc_channel[c]].refs = 1
         /\ resolver[c] = NULL
    /\ pc[c] \in {"L102", "L104"} => resolver[c] # NULL
    /\ AfterResolverFailure(c) =>
         /\ cc_channel[c] # NULL
         /\ chan[cc_channel[c]].resolver = NULL
         /\ chan[cc_channel[c]].factory = NULL
         /\ own[f[c]][ChannelStack] = "none"
         /\ fac[f[c]].refs <= 1
         /\ chan[cc_channel[c]].destroyed <= 1
         /\ "channel used after free" \notin err
         /\ pc[c] = "L98" =>
              chan[cc_channel[c]].refs = 1 /\ chan[cc_channel[c]].destroyed = 0
         /\ pc[c] # "L98" =>
              /\ chan[cc_channel[c]].refs = 0
              /\ chan[cc_channel[c]].destroyed = 1
              /\ channel[c] = NULL
         /\ pc[c] = "done" => result[c] = Returned(NULL)

C12_Witness ==
  \E c \in Calls :
    /\ AfterResolverFailure(c)
    /\ pc[c] = "done"
    /\ chan[cc_channel[c]].destroyed = 1
    /\ result[c] = Returned(NULL)

(***************************************************************************)
(* C13.  On a successful create_channel the resolver and the factory are   *)
(* wired into the channel stack (at line 104 the channel holds both, and   *)
(* the resolver has the two references of line 96 and of the stack), and   *)
(* line 104 then drops the constructor's resolver reference once: from     *)
(* then on the resolver is held only by the channel stack, its count being *)
(* the number of live channels that hold it, which is at least 1, and it   *)
(* is neither freed nor used after free.                                   *)
(***************************************************************************)
\* Call c is past line 104, the resolver of line 96 having been made.
AfterResolverUnref(c) ==
  /\ pc[c] \in {"L165", "L167", "L168", "L66", "L68", "L169", "L170", "done"}
  /\ resolver[c] # NULL

C13_ResolverHeldByChannelStack ==
  \A c \in Calls :
    /\ pc[c] = "L104" =>
         /\ resolver[c] # NULL
         /\ chan[cc_channel[c]].resolver = resolver[c]
         /\ chan[cc_channel[c]].factory = f[c]
         /\ own[f[c]][ChannelStack] = "held"
         /\ res[resolver[c]].refs = 2
         /\ res[resolver[c]].freed = 0
    /\ AfterResolverUnref(c) =>
         /\ chan[cc_channel[c]].resolver = resolver[c]
         /\ chan[cc_channel[c]].factory = f[c]
         /\ channel[c] = cc_channel[c]
         /\ LiveChannelsOn(resolver[c]) = {cc_channel[c]}
         /\ res[resolver[c]].refs = Cardinality(LiveChannelsOn(resolver[c]))
         /\ res[resolver[c]].refs >= 1
         /\ res[resolver[c]].freed = 0
         /\ "resolver used after free" \notin err

C13_Witness ==
  \E c \in Calls :
    /\ AfterResolverUnref(c)
    /\ pc[c] = "done"
    /\ result[c] = Returned(cc_channel[c])
    /\ res[resolver[c]].refs = 1
    /\ chan[result[c].value].resolver = resolver[c]

(***************************************************************************)
(* C14.  The steps of grpc_secure_channel_create occur in the order args   *)
(* conflict check (128), connector creation (138), merge (145-150),        *)
(* factory allocation with one extra connector reference (154-160),        *)
(* channel creation (95-104), clean up (165-169), return (170): a call     *)
(* moves only along these lines, a step is reached only when the earlier   *)
(* ones succeeded (no conflict; a connector; merged args; a factory, the   *)
(* connector then having two references; a channel made), the lines from   *)
(* 145 to 95 have one successor each, so nothing fails between connector   *)
(* creation and channel creation, and both exits of create_channel, 98 and *)
(* 104, lead to the clean up of line 165.                                  *)
(***************************************************************************)
\* The lines a call may go to from a line.
Successors(l) ==
  CASE l = "L128" -> {"L130", "L138"}
    [] l = "L130" -> {"L131"}
    [] l = "L131" -> {"done"}
    [] l = "L138" -> {"L141", "L145"}
    [] l = "L141" -> {"L142"}
    [] l = "L142" -> {"done"}
    [] l = "L145" -> {"L150"}
    [] l = "L150" -> {"L154"}
    [] l = "L154" -> {"L158"}
    [] l = "L158" -> {"L160"}
    [] l = "L160" -> {"L95"}
    [] l = "L95" -> {"L96"}
    [] l = "L96" -> {"L98", "L102"}
    [] l = "L98" -> {"L165"}
    [] l = "L102" -> {"L104"}
    [] l = "L104" -> {"L165"}
    [] l = "L165" -> {"L167"}
    [] l = "L167" -> {"L168"}
    [] l = "L168" -> {"L66", "L169"}
    [] l = "L66" -> {"L68"}
    [] l = "L68" -> {"L169"}
    [] l = "L169" -> {"L170"}
    [] l = "L170" -> {"done"}
    [] OTHER -> {}

Merged == {"L150", "L154", "L158", "L160"}
InCreateChannel == {"L95", "L96", "L98", "L102", "L104"}
CleanUp == {"L165", "L167", "L168", "L66", "L68", "L169", "L170"}

\* Call c is on the main path: past line 140 with a connector.
OnMainPath(c) ==
  \/ pc[c] \in {"L145"} \cup Merged \cup InCreateChannel \cup CleanUp
  \/ pc[c] = "done" /\ security_connector[c] # NULL

C14_StepsInOrder ==
  \A c \in Calls : pc'[c] # pc[c] => pc'[c] \in Successors(pc[c])

C14_EarlierStepsSucceeded ==
  \A c \in Calls :
    /\ pc[c] \in {"L138", "L141", "L142"} =>
         ~ArgsConflict(c) /\ NothingBuilt(c)
    /\ pc[c] \in {"L130", "L131"} => ArgsConflict(c)
    /\ OnMainPath(c) =>
         /\ ~ArgsConflict(c)
         /\ security_connector[c] # NULL
         /\ sc[security_connector[c]].alloc
    /\ pc[c] = "L145" => new_args[c].isnull /\ f[c] = NULL
    /\ OnMainPath(c) /\ pc[c] # "L145" =>
         /\ ~new_args[c].isnull
         /\ Cardinality(SecurityEntries(new_args[c].entries)) = 1
    /\ pc[c] \in {"L150", "L154"} => f[c] = NULL
    /\ OnMainPath(c) /\ pc[c] \notin {"L145", "L150", "L154"} =>
         /\ f[c] # NULL
         /\ fac[f[c]].alloc
    /\ pc[c] = "L158" =>
         sc[security_connector[c]].refs = 1 /\ fac[f[c]].refs = 1
    /\ pc[c] \in {"L160"} \cup InCreateChannel \cup {"L165"} =>
         sc[security_connector[c]].refs = 2
    /\ pc[c] \in Merged \cup {"L95"} => cc_channel[c] = NULL
    /\ pc[c] \in InCreateChannel \ {"L95"} =>
         fac[f[c]].security_connector = security_connector[c]
    /\ OnMainPath(c) /\ pc[c] \notin {"L145", "L95"} \cup Merged =>
         /\ cc_channel[c] # NULL
         /\ chan[cc_channel[c]].alloc
    /\ pc[c] \in InCreateChannel => new_args[c].destroyed = 0
    /\ pc[c] \in {"L168", "L66", "L68", "L169", "L170"} =>
         new_args[c].destroyed = 1
    /\ pc[c] = "done" =>
         /\ result[c].returned
         /\ OnMainPath(c) =>
              /\ new_args[c].destroyed = 1
              /\ result[c].value \in {NULL, cc_channel[c]}
         /\ ~OnMainPath(c) => result[c].value # NULL

C14_OrderOfSteps == [](C14_EarlierStepsSucceeded) /\ [][C14_StepsInOrder]_vars

\* Clean up is running after a create_channel that failed.
C14_Witness ==
  \E c \in Calls :
    /\ pc[c] = "L167"
    /\ resolver[c] = NULL
    /\ cc_channel[c] # NULL
    /\ sc[security_connector[c]].refs = 1

(***************************************************************************)
(* C15.  Once line 160 has initialised a factory, no step of ref, unref,   *)
(* create_subchannel, create_channel or the constructor's clean up changes *)
(* its security connector pointer or its vtable (its refcount, and the     *)
(* bookkeeping of its release and of its free, is all that changes), and   *)
(* a security connector changes only by its refcount going up or down by   *)
(* one, being destroyed exactly by the step that takes the count to zero.  *)
(***************************************************************************)
\* Factory id has been through line 160.
Initialised(id) ==
  /\ fac[id].alloc
  /\ \E c \in Calls :
       f[c] = id /\ pc[c] \notin {"idle", "L128", "L130", "L131", "L138",
                                  "L141", "L142", "L145", "L150", "L154",
                                  "L158", "L160"}

C15_OnlyRefcountsChange ==
  /\ \A id \in FacIds :
       Initialised(id) =>
         /\ fac'[id].alloc
         /\ fac'[id].security_connector = fac[id].security_connector
         /\ fac'[id].vtable = fac[id].vtable
  /\ \A i \in ScIds :
       sc[i].alloc /\ sc'[i] # sc[i] =>
         /\ sc'[i].alloc
         /\ sc'[i].refs \in {sc[i].refs - 1, sc[i].refs + 1}
         /\ sc'[i].freed =
              IF sc'[i].refs = 0 THEN sc[i].freed + 1 ELSE sc[i].freed

C15_InitialisedFactory ==
  \A id \in FacIds :
    Initialised(id) =>
      /\ fac[id].vtable = "client_channel_factory_vtable"
      /\ fac[id].security_connector # NULL
      /\ \E c \in Calls :
           f[c] = id /\ fac[id].security_connector = security_connector[c]

C15_FrameOfFactory ==
  [](C15_InitialisedFactory) /\ [][C15_OnlyRefcountsChange]_vars

\* A factory that was shared, used for a subchannel and then freed still
\* has the pointer and the vtable of its initialisation.
C15_Witness ==
  \E id \in FacIds :
    /\ Initialised(id)
    /\ fac[id].freed = 1
    /\ fac[id].security_connector # NULL
    /\ sc[fac[id].security_connector].freed = 1
    /\ \E k \in ConnIds :
         conn[k].alloc /\ conn[k].security_connector = fac[id].security_connector

(***************************************************************************)
(* C16.  No step of a call changes or destroys the caller's args or        *)
(* credentials.  The merged args are an object of the call's own, made at  *)
(* line 145, read by grpc_channel_create at line 95 (which keeps a copy)   *)
(* and destroyed exactly once, at line 167, after create_channel returned  *)
(* with or without a channel.  The args handed back by the credentials     *)
(* step, when not NULL, are destroyed exactly once, at line 150 right      *)
(* after the merge of line 145 that reads them, and nothing reads them or  *)
(* changes the merged entries after that.                                  *)
(***************************************************************************)
AfterMerge == Merged \cup InCreateChannel \cup CleanUp
AfterDerivedDestroy == AfterMerge \ {"L150"}
AfterArgsDestroy == CleanUp \ {"L165", "L167"}

C16_CallerInputsUntouched ==
  /\ args' = args
  /\ creds' = creds
  /\ \A c \in Calls :
       /\ new_args[c].destroyed > 0 => new_args'[c] = new_args[c]
       /\ new_args_from_connector[c].destroyed > 0 =>
            /\ new_args_from_connector'[c] = new_args_from_connector[c]
            /\ new_args'[c].entries = new_args[c].entries

C16_ArgsLifetimes ==
  \A c \in Calls :
    /\ args[c].destroyed = 0
    /\ creds[c].destroyed = 0 /\ creds[c].refs = 1
    /\ new_args[c].isnull <=> ~OnMainPath(c) \/ pc[c] = "L145"
    /\ new_args[c].destroyed =
         IF OnMainPath(c) /\ (pc[c] \in AfterArgsDestroy \/ pc[c] = "done")
         THEN 1 ELSE 0
    /\ new_args[c].destroyed = 1 => cc_channel[c] # NULL
    /\ ~OnMainPath(c) => new_args_from_connector[c].isnull
    /\ new_args_from_connector[c].destroyed =
         IF /\ ~new_args_from_connector[c].isnull
            /\ (pc[c] \in AfterDerivedDestroy \/ pc[c] = "done")
         THEN 1 ELSE 0
    /\ cc_channel[c] # NULL =>
         chan[cc_channel[c]].args = new_args[c].entries

C16_ArgsOwnership ==
  [](C16_ArgsLifetimes) /\ [][C16_CallerInputsUntouched]_vars

\* A call whose resolver failed has returned: both args objects it made are
\* destroyed once and the caller's args are as they were given.
C16_Witness ==
  \E c \in Calls :
    /\ pc[c] = "done"
    /\ f[c] # NULL /\ resolver[c] = NULL
    /\ ~args[c].isnull /\ args[c].destroyed = 0
    /\ ~new_args_from_connector[c].isnull
    /\ new_args_from_connector[c].destroyed = 1
    /\ new_args[c].destroyed = 1

(***************************************************************************)
(* C17.  client_channel_factory_create_subchannel has no failure exit:     *)
(* from line 82 it goes to line 84, from there to line 85 and from there   *)
(* it returns the subchannel of line 84.  None of its steps changes the    *)
(* factory (its refcount and its connector pointer stay) or a security     *)
(* connector.  It drops the reference of line 82 on the transport          *)
(* connector once, at line 85: the count of a transport connector is the   *)
(* number of subchannels made from it plus the running calls that hold it, *)
(* so after the return it is 1, the subchannel's, and the connector is     *)
(* not freed.                                                              *)
(***************************************************************************)
\* The subchannels made from transport connector k, and the running
\* create_subchannel calls that hold it.
SubchannelsOf(k) == { s \in SubIds : sub[s].alloc /\ sub[s].connector = k }
BuildersOf(k) ==
  { p \in FacIds \X Owners :
      own[p[1]][p[2]] \in {"L84", "L85"} /\ cs[p[1]][p[2]].connector = k }

C17_TransportConnectorHeld ==
  /\ "transport connector used after free" \notin err
  /\ \A k \in ConnIds :
       conn[k].alloc =>
         /\ conn[k].refs =
              Cardinality(SubchannelsOf(k)) + Cardinality(BuildersOf(k))
         /\ conn[k].freed = 0
         /\ conn[k].security_connector # NULL
  /\ \A s \in SubIds :
       sub[s].alloc /\ sub[s].returned =>
         /\ sub[s].connector # NULL
         /\ conn[sub[s].connector].alloc
         /\ BuildersOf(sub[s].connector) = {}
         /\ SubchannelsOf(sub[s].connector) = {s}
         /\ conn[sub[s].connector].refs = 1
  /\ \A id \in FacIds, o \in Owners :
       /\ own[id][o] = "L84" =>
            /\ cs[id][o].connector # NULL /\ cs[id][o].s = NULL
            /\ conn[cs[id][o].connector].refs = 1
       /\ own[id][o] = "L85" =>
            /\ cs[id][o].connector # NULL /\ cs[id][o].s # NULL
            /\ sub[cs[id][o].s].connector = cs[id][o].connector
            /\ ~sub[cs[id][o].s].returned
            /\ conn[cs[id][o].connector].refs = 2
       /\ own[id][o] \notin {"L84", "L85"} => cs[id][o] = NoCs

C17_StepsOfCreateSubchannel ==
  \A id \in FacIds, o \in Owners :
    /\ own[id][o] # "L84" /\ own'[id][o] = "L84" =>
         own[id][o] = "held" /\ fac' = fac /\ sc' = sc
    /\ own[id][o] = "L84" /\ own'[id][o] # "L84" =>
         own'[id][o] = "L85" /\ fac' = fac /\ sc' = sc
    /\ own[id][o] = "L85" /\ own'[id][o] # "L85" =>
         /\ own'[id][o] = "held" /\ fac' = fac /\ sc' = sc
         /\ sub'[cs[id][o].s].returned

C17_CreateSubchannel ==
  [](C17_TransportConnectorHeld) /\ [][C17_StepsOfCreateSubchannel]_vars

\* Two subchannels were returned, each keeping its transport connector, and
\* the factory has the two references it had before.
C17_Witness ==
  \E id \in FacIds, s, t \in SubIds :
    /\ s # t
    /\ sub[s].returned /\ sub[t].returned
    /\ conn[sub[s].connector].refs = 1
    /\ conn[sub[t].connector].refs = 1
    /\ fac[id].alloc /\ fac[id].refs = 2 /\ fac[id].freed = 0
    /\ conn[sub[s].connector].security_connector = fac[id].security_connector

(***************************************************************************)
(* C18.  Whenever a factory's refcount is above zero and its connector     *)
(* pointer is set, the security connector it points to has a count of at   *)
(* least 1 and is not freed.  At line 165 the constructor drops its own    *)
(* connector reference through the pointer of a factory that is alive      *)
(* (count at least 1, not freed), one line before line 168 drops the       *)
(* factory reference; no step reads a freed factory, and create_subchannel *)
(* runs only for a holder of a live factory whose connector is live.       *)
(***************************************************************************)
C18_LiveFactoryHasLiveConnector ==
  /\ "factory used after free" \notin err
  /\ "connector used after free" \notin err
  /\ \A id \in FacIds :
       /\ fac[id].alloc /\ fac[id].refs > 0
            /\ fac[id].security_connector # NULL =>
            /\ fac[id].freed = 0
            /\ fac[id].released = 0
            /\ sc[fac[id].security_connector].alloc
            /\ sc[fac[id].security_connector].refs >= 1
            /\ sc[fac[id].security_connector].freed = 0
       /\ \A o \in Owners :
            own[id][o] \in {"held", "L84", "L85"} =>
              /\ fac[id].refs > 0
              /\ fac[id].security_connector # NULL
  /\ \A c \in Calls :
       /\ pc[c] \in {"L165", "L167", "L168"} =>
            /\ fac[f[c]].refs >= 1
            /\ fac[f[c]].freed = 0
            /\ fac[f[c]].security_connector = security_connector[c]
       /\ pc[c] = "L165" => sc[security_connector[c]].refs = 2
       /\ pc[c] \in {"L167", "L168"} =>
            sc[security_connector[c]].refs = 1

\* A holder is inside create_subchannel, after the constructor returned and
\* dropped its references: the connector lives on the factory's reference.
C18_Witness ==
  \E id \in FacIds, o \in Owners :
    /\ own[id][o] = "L85"
    /\ fac[id].refs = 1
    /\ sc[fac[id].security_connector].refs = 1
    /\ conn[cs[id][o].connector].security_connector = fac[id].security_connector

(***************************************************************************)
(* C19.  The exec_ctx of a call is finished exactly once on each of its    *)
(* return paths: never twice, and once by the time the call has returned.  *)
(* On the main path it is still unfinished at every line that hands it to  *)
(* a callee (94-104, among them the channel unref of line 98 and the       *)
(* resolver unref of line 104; the factory unref of line 168 with lines    *)
(* 66-68) and is finished at line 169, after them: no callee is given a    *)
(* finished exec_ctx.                                                      *)
(***************************************************************************)
C19_ExecCtxFinishedOnce ==
  /\ "exec_ctx used after finish" \notin err
  /\ \A c \in Calls :
       /\ exec_ctx[c] \in {0, 1}
       /\ pc[c] = "done" => exec_ctx[c] = 1
       /\ exec_ctx[c] = 1 <=> pc[c] \in {"L131", "L142", "L170", "done"}
       /\ OnMainPath(c) /\ pc[c] \notin {"L170", "done"} => exec_ctx[c] = 0
       /\ OnMainPath(c) /\ exec_ctx[c] = 1 =>
            /\ cc_channel[c] # NULL
            /\ chan[cc_channel[c]].refs = (IF resolver[c] = NULL THEN 0 ELSE 1)
            /\ resolver[c] # NULL => res[resolver[c]].refs = 1
            /\ pc[c] = "L170" =>
                 fac[f[c]].refs = (IF resolver[c] = NULL THEN 0 ELSE 1)

\* The call is at its return after a failed resolver: the channel unref
\* and the factory unref with its free were issued, then the one finish.
C19_Witness ==
  \E c \in Calls :
    /\ pc[c] = "L170"
    /\ resolver[c] = NULL
    /\ fac[f[c]].freed = 1
    /\ chan[cc_channel[c]].destroyed = 1
    /\ exec_ctx[c] = 1

====
